---- MODULE Spec2Model ----
(***************************************************************************)
(* Balanced dice: the balanced-roll queue, the simulation driver and the   *)
(* overlay session of the windowed variant (balanced-dice.py and           *)
(* balanced_dice_gui.py).                                                  *)
(*                                                                         *)
(* Spec     the loop of simulate_rolls, one iteration per step.            *)
(* SpecGUI  the handlers of BalancedDiceGUI, one handler per step.         *)
(***************************************************************************)
EXTENDS Integers, Sequences, FiniteSets, TLC

(***************************************************************************)
(* Bounds.                                                                 *)
(***************************************************************************)
\* simulate_rolls is run for every num_rolls in 0..MaxRolls (two full cycles
\* of 36 and the start of a third).
MaxRolls == 74
\* The generator starts in one of the states 0..NumSeeds-1.
NumSeeds == 6
\* The roll counts typed into the entry are the integers -MaxEntry..MaxEntry.
MaxEntry == 1
\* A handler of the window finds the generator in one of the states
\* 0..NumSessionSeeds-1.
NumSessionSeeds == 2
\* calculate_frequencies and plot_results are applied to every list of at
\* most MaxAggLen values.
MaxAggLen == 3

Seeds == 0 .. (NumSeeds - 1)

SessionSeeds == 0 .. (NumSessionSeeds - 1)

(***************************************************************************)
(* The random module.  The program draws from one process-wide generator;  *)
(* it is modelled as a small congruential generator whose state is         *)
(* threaded through every draw.  randbelow(n) is the primitive under both  *)
(* random.randint and random.shuffle.                                      *)
(***************************************************************************)
RngNext(r) == (r * 33 + 7) % 251

RandBelow(r, n) == r % n

\* random.randint(a, b): a + randbelow(b - a + 1)
randint(a, b, r) == [value |-> a + RandBelow(r, b - a + 1), rng |-> RngNext(r)]

Swap(x, p, q) == [x EXCEPT ![p] = x[q], ![q] = x[p]]

\* random.shuffle(x): for i in reversed(range(1, len(x))):
\*                        j = randbelow(i + 1); x[i], x[j] = x[j], x[i]
\* p is the 1-based position i + 1.
RECURSIVE ShuffleFrom(_, _, _)
ShuffleFrom(x, p, r) ==
    IF p < 2 THEN [queue |-> x, rng |-> r]
    ELSE ShuffleFrom(Swap(x, p, RandBelow(r, p) + 1), p - 1, RngNext(r))

shuffle(x, r) == ShuffleFrom(x, Len(x), r)

(***************************************************************************)
(* Constants and functions of balanced-dice.py.                            *)
(***************************************************************************)
EXPECTED_DIST_2_12_typo ==
    2 :> 1 @@ 3 :> 2 @@ 4 :> 3 @@ 5 :> 4 @@ 6 :> 5 @@ 7 :> 6 @@
    8 :> 5 @@ 9 :> 4 @@ 10 :> 3 @@ 11 :> 3 @@ 12 :> 1

EXPECTED_DIST_2_12 ==
    2 :> 1 @@ 3 :> 2 @@ 4 :> 3 @@ 5 :> 4 @@ 6 :> 5 @@ 7 :> 6 @@
    8 :> 5 @@ 9 :> 4 @@ 10 :> 3 @@ 11 :> 2 @@ 12 :> 1

Repeat_one_more(number, count) == [k \in 1 .. (count + 1) |-> number]

\* [number] * count
Repeat(number, count) == [k \in 1 .. count |-> number]

\* for number, count in dist.items(): queue.extend([number] * count)
\* (a dict iterates in insertion order: 2, 3, ..., 12)
RECURSIVE ExtendFrom(_, _)
ExtendFrom(dist, number) ==
    IF number \notin DOMAIN dist THEN << >>
    ELSE Repeat(number, dist[number]) \o ExtendFrom(dist, number + 1)

create_balanced_queue_partial(dist, r) ==
    LET c == shuffle(ExtendFrom(dist, 2), r) IN
    [queue |-> SubSeq(c.queue, 1, Len(c.queue) - 1), rng |-> c.rng]

create_balanced_queue(dist, r) == shuffle(ExtendFrom(dist, 2), r)

roll_standard_dice_wide(r) ==
    LET a == randint(1, 6, r)
        b == randint(1, 7, a.rng)
    IN  [roll |-> a.value + b.value, rng |-> b.rng]

roll_standard_dice(r) ==
    LET a == randint(1, 6, r)
        b == randint(1, 6, a.rng)
    IN  [roll |-> a.value + b.value, rng |-> b.rng]

NeedsRebuild_early(queue) == Len(queue) <= 1

NeedsRebuild_never(queue) == FALSE

\* the test `queue == []` of roll_balanced_dice
NeedsRebuild(queue) == queue = << >>

roll_balanced_dice_peek(queue, r) ==
    LET c == IF NeedsRebuild(queue)
             THEN create_balanced_queue(EXPECTED_DIST_2_12, r)
             ELSE [queue |-> queue, rng |-> r]
        q == c.queue
    IN  IF q = << >>
        THEN [raised |-> TRUE, roll |-> 0, queue |-> q, rng |-> c.rng]
        ELSE [raised |-> FALSE, roll |-> q[Len(q)], queue |-> q, rng |-> c.rng]

roll_balanced_dice_front(queue, r) ==
    LET c == IF NeedsRebuild(queue)
             THEN create_balanced_queue(EXPECTED_DIST_2_12, r)
             ELSE [queue |-> queue, rng |-> r]
        q == c.queue
    IN  IF q = << >>
        THEN [raised |-> TRUE, roll |-> 0, queue |-> q, rng |-> c.rng]
        ELSE [raised |-> FALSE, roll |-> Head(q), queue |-> Tail(q), rng |-> c.rng]

\* roll_balanced_dice(queue): raised is the IndexError of list.pop() on an
\* empty list.
roll_balanced_dice(queue, r) ==
    LET c == IF NeedsRebuild(queue)
             THEN create_balanced_queue(EXPECTED_DIST_2_12, r)
             ELSE [queue |-> queue, rng |-> r]
        q == c.queue
    IN  IF q = << >>
        THEN [raised |-> TRUE, roll |-> 0, queue |-> q, rng |-> c.rng]
        ELSE [raised |-> FALSE, roll |-> q[Len(q)],
              queue |-> SubSeq(q, 1, Len(q) - 1), rng |-> c.rng]

\* roll_function(*args): the roller called with the driver's argument list
CallRoller(f, a, r) ==
    IF f = "roll_balanced_dice"
    THEN roll_balanced_dice(a[1], r)
    ELSE LET x == roll_standard_dice(r) IN
         [raised |-> FALSE, roll |-> x.roll, queue |-> << >>, rng |-> x.rng]

\* the body of `for i in range(num_rolls)` in simulate_rolls
LoopBody(f, a, res, r) ==
    LET x == CallRoller(f, a, r) IN
    IF x.raised
    THEN [raised |-> TRUE, args |-> a, results |-> res, rng |-> x.rng]
    ELSE IF a # << >>
    THEN [raised |-> FALSE, args |-> [a EXCEPT ![1] = x.queue],
          results |-> Append(res, x.roll), rng |-> x.rng]
    ELSE [raised |-> FALSE, args |-> a,
          results |-> Append(res, x.roll), rng |-> x.rng]

\* simulate_rolls run to completion (as main() and the handlers of the
\* window call it).  The `remaining` iterations of the loop are evaluated as
\* the first half of them followed by the rest, which keeps the nesting of
\* the evaluation logarithmic in num_rolls.
RECURSIVE SimLoop(_, _, _, _, _)
SimLoop(f, remaining, a, res, r) ==
    IF remaining <= 0
    THEN [raised |-> FALSE, args |-> a, results |-> res, rng |-> r]
    ELSE IF remaining = 1
    THEN LoopBody(f, a, res, r)
    ELSE LET first == SimLoop(f, remaining \div 2, a, res, r) IN
         IF first.raised THEN first
         ELSE SimLoop(f, remaining - remaining \div 2,
                      first.args, first.results, first.rng)

simulate_rolls(f, n, a, r) == SimLoop(f, n, a, << >>, r)

\* list.count(v)
CountOf(s, v) == Cardinality({k \in 1 .. Len(s) : s[k] = v})

(***************************************************************************)
(* State.                                                                  *)
(***************************************************************************)
VARIABLES
    \* simulate_rolls
    pc,             \* "loop", "done", or "IndexError" (the call raised)
    roll_function,  \* "roll_standard_dice" or "roll_balanced_dice"
    num_rolls,
    i,              \* iterations of the for loop completed
    args,           \* list(args): << >> or << queue >>
    results,
    rng,            \* state of the random generator
    \* history of the run
    fresh_start,    \* the queue passed in came from create_balanced_queue
    popped,         \* values popped since the last build of the queue
    discarded,      \* values still queued when a rebuild replaced the queue
    start,          \* the argument list and the generator state at the call
    \* BalancedDiceGUI
    overlay_active,     \* self.overlay_active
    has_plotted_dice,   \* hasattr(self, "plotted_dice")
    plotted_dice,       \* self.plotted_dice (when the attribute exists)
    dice_choice,        \* self.dice_choice: "Standard" or "Balanced"
    overlay_choice,     \* self.overlay_choice (the checkbox)
    chart,              \* self.ax: the bar series drawn, in order
    text_freq,          \* self.text_freq: the sections shown, in order
    \* what the last handler did
    msgs,               \* titles of the message boxes it showed
    calls,              \* the simulate_rolls calls it made
    balanced_queue,     \* the queues create_balanced_queue returned to it
    op,                 \* the operation of the last step
    \* main() of balanced-dice.py
    cli_pc,             \* position in main(); "none" when main() is not run
    cli_num,            \* num_rolls of main()
    standard_results,
    balanced_results,
    figures,            \* the figures shown by visualise_results, in order
    printed,            \* the error lines printed
    \* calculate_frequencies and plot_results on one result list
    agg_pc,             \* "input", "done"; "idle" when no list is aggregated
    agg_results,        \* the list passed to both
    agg_frequencies,    \* the table calculate_frequencies returned
    agg_ax              \* the axes after plot_results

simVars == << pc, roll_function, num_rolls, i, args, results, rng,
              fresh_start, popped, discarded, start >>

guiVars == << overlay_active, has_plotted_dice, plotted_dice, dice_choice,
              overlay_choice, chart, text_freq, msgs, calls, balanced_queue,
              op >>

cliVars == << cli_pc, cli_num, standard_results, balanced_results,
              figures, printed >>

aggVars == << agg_pc, agg_results, agg_frequencies, agg_ax >>

vars == << simVars, guiVars, cliVars, aggVars >>

\* main() is not running
InitNoScript ==
    /\ cli_pc = "none"
    /\ cli_num = 0
    /\ standard_results = << >>
    /\ balanced_results = << >>
    /\ figures = << >>
    /\ printed = << >>

\* no result list is being aggregated
InitNoAggregate ==
    /\ agg_pc = "idle"
    /\ agg_results = << >>
    /\ agg_frequencies = << >>
    /\ agg_ax = << >>

\* BalancedDiceGUI.__init__
InitGUI ==
    /\ overlay_active = FALSE
    /\ has_plotted_dice = FALSE
    /\ plotted_dice = {}
    /\ dice_choice = "Standard"
    /\ overlay_choice = FALSE
    /\ chart = << >>
    /\ text_freq = << >>
    /\ msgs = << >>
    /\ calls = << >>
    /\ balanced_queue = << >>
    /\ op = "__init__"

\* no simulate_rolls call in progress
InitIdle ==
    /\ pc = "done"
    /\ roll_function = "roll_standard_dice"
    /\ num_rolls = 0
    /\ i = 0
    /\ args = << >>
    /\ results = << >>
    /\ rng = 0
    /\ fresh_start = FALSE
    /\ popped = << >>
    /\ discarded = 0
    /\ start = [args |-> << >>, rng |-> 0]

(***************************************************************************)
(* simulate_rolls(roll_function, num_rolls, *args), as main() and          *)
(* start_simulation call it, and with an empty queue.                      *)
(***************************************************************************)
Init ==
    /\ pc = "loop"
    /\ i = 0
    /\ results = << >>
    /\ popped = << >>
    /\ discarded = 0
    /\ num_rolls \in 0 .. MaxRolls
    /\ \E seed \in Seeds :
         \/ /\ roll_function = "roll_standard_dice"
            /\ args = << >>
            /\ fresh_start = FALSE
            /\ rng = seed
         \/ LET c == create_balanced_queue(EXPECTED_DIST_2_12, seed) IN
            /\ roll_function = "roll_balanced_dice"
            /\ args = << c.queue >>
            /\ fresh_start = TRUE
            /\ rng = c.rng
         \/ /\ roll_function = "roll_balanced_dice"
            /\ args = << << >> >>
            /\ fresh_start = FALSE
            /\ rng = seed
    /\ start = [args |-> args, rng |-> rng]
    /\ InitGUI
    /\ InitNoScript
    /\ InitNoAggregate

Iterate_before_test ==
    /\ pc = "loop"
    /\ i < num_rolls \/ i = 0
    /\ LET b == LoopBody(roll_function, args, results, rng)
           rebuilt == args # << >> /\ NeedsRebuild(args[1])
       IN  /\ rng' = b.rng
           /\ args' = b.args
           /\ results' = b.results
           /\ discarded' = IF rebuilt THEN discarded + Len(args[1])
                           ELSE discarded
           /\ IF b.raised
              THEN /\ pc' = "IndexError"
                   /\ UNCHANGED << i, popped >>
              ELSE /\ pc' = pc
                   /\ i' = i + 1
                   /\ popped' =
                        IF args = << >> THEN popped
                        ELSE IF rebuilt THEN << b.results[Len(b.results)] >>
                        ELSE Append(popped, b.results[Len(b.results)])
    /\ UNCHANGED << roll_function, num_rolls, fresh_start, start >>
    /\ UNCHANGED << guiVars, cliVars, aggVars >>

\* One iteration of `for i in range(num_rolls)`.
Iterate ==
    /\ pc = "loop"
    /\ i < num_rolls
    /\ LET b == LoopBody(roll_function, args, results, rng)
           rebuilt == args # << >> /\ NeedsRebuild(args[1])
       IN  /\ rng' = b.rng
           /\ args' = b.args
           /\ results' = b.results
           /\ discarded' = IF rebuilt THEN discarded + Len(args[1])
                           ELSE discarded
           /\ IF b.raised
              THEN /\ pc' = "IndexError"
                   /\ UNCHANGED << i, popped >>
              ELSE /\ pc' = pc
                   /\ i' = i + 1
                   /\ popped' =
                        IF args = << >> THEN popped
                        ELSE IF rebuilt THEN << b.results[Len(b.results)] >>
                        ELSE Append(popped, b.results[Len(b.results)])
    /\ UNCHANGED << roll_function, num_rolls, fresh_start, start >>
    /\ UNCHANGED << guiVars, cliVars, aggVars >>

\* `return results`
Return ==
    /\ pc = "loop"
    /\ i = num_rolls
    /\ pc' = "done"
    /\ UNCHANGED << roll_function, num_rolls, i, args, results, rng,
                    fresh_start, popped, discarded, start >>
    /\ UNCHANGED << guiVars, cliVars, aggVars >>

Next == Iterate \/ Return

Spec == Init /\ [][Next]_vars

(***************************************************************************)
(* balanced_dice_gui.py: the entry text and int().                         *)
(***************************************************************************)
DigitValue ==
    "0" :> 0 @@ "1" :> 1 @@ "2" :> 2 @@ "3" :> 3 @@ "4" :> 4 @@
    "5" :> 5 @@ "6" :> 6 @@ "7" :> 7 @@ "8" :> 8 @@ "9" :> 9

DigitChar == [d \in 0 .. 9 |-> CHOOSE c \in DOMAIN DigitValue : DigitValue[c] = d]

\* the decimal digits of n >= 0, as the user types them
RECURSIVE Digits(_)
Digits(n) ==
    IF n < 10 THEN << DigitChar[n] >>
    ELSE Append(Digits(n \div 10), DigitChar[n % 10])

Str(n) == IF n < 0 THEN << "-" >> \o Digits(0 - n) ELSE Digits(n)

\* what the user may have typed into entry_rolls: a sequence of characters
EntryTexts ==
    { Str(n) : n \in (0 - MaxEntry) .. MaxEntry }
        \cup { << >>, << "a" >>, << "1", "a" >>, << "-" >>, << " ", "2" >>,
               << "+", "1" >>, << "4", "0" >>, << "1", ".", "5" >> }

\* str.strip(), which int() applies to its argument
RECURSIVE StripLeft(_)
StripLeft(t) ==
    IF t # << >> /\ Head(t) = " " THEN StripLeft(Tail(t)) ELSE t

RECURSIVE StripRight(_)
StripRight(t) ==
    IF t # << >> /\ t[Len(t)] = " "
    THEN StripRight(SubSeq(t, 1, Len(t) - 1)) ELSE t

RECURSIVE DigitsValue(_)
DigitsValue(t) ==
    IF t = << >> THEN 0
    ELSE 10 * DigitsValue(SubSeq(t, 1, Len(t) - 1)) + DigitValue[t[Len(t)]]

\* int(text): ok is FALSE where int() raises ValueError
ParseInt(text) ==
    LET t    == StripRight(StripLeft(text))
        neg  == t # << >> /\ Head(t) = "-"
        body == IF t # << >> /\ Head(t) \in {"-", "+"} THEN Tail(t) ELSE t
        ok   == body # << >> /\ \A k \in 1 .. Len(body) : body[k] \in DOMAIN DigitValue
    IN  IF ~ok THEN [ok |-> FALSE, value |-> 0]
        ELSE [ok |-> TRUE,
              value |-> IF neg THEN 0 - DigitsValue(body) ELSE DigitsValue(body)]

ValidCount_nonnegative(text) == ParseInt(text).ok /\ ParseInt(text).value >= 0

\* the try block of start_simulation: the count, or ValueError
ValidCount(text) == ParseInt(text).ok /\ ParseInt(text).value > 0

(***************************************************************************)
(* balanced_dice_gui.py: plotting and frequencies.                         *)
(***************************************************************************)
plot_results_short(res, label, ax) ==
    Append(ax, [label |-> label, counts |-> [k \in 2 .. 11 |-> CountOf(res, k)]])

\* plot_results: counts = {i: results.count(i) for i in range(2, 13)};
\* ax.bar(..., label=label)
plot_results(res, label, ax) ==
    Append(ax, [label |-> label, counts |-> [k \in 2 .. 12 |-> CountOf(res, k)]])

RECURSIVE FrequencyLoop_flag(_, _)
FrequencyLoop_flag(frequencies, rest) ==
    IF rest = << >> THEN frequencies
    ELSE FrequencyLoop_flag(
            IF Head(rest) \in DOMAIN frequencies
            THEN [frequencies EXCEPT ![Head(rest)] = 1]
            ELSE frequencies,
            Tail(rest))

RECURSIVE FrequencyLoop(_, _)
FrequencyLoop(frequencies, rest) ==
    IF rest = << >> THEN frequencies
    ELSE FrequencyLoop(
            IF Head(rest) \in DOMAIN frequencies
            THEN [frequencies EXCEPT ![Head(rest)] = @ + 1]
            ELSE frequencies,
            Tail(rest))

calculate_frequencies(res) == FrequencyLoop([k \in 2 .. 12 |-> 0], res)

\* display_frequencies: the text is deleted unless the overlay box is
\* checked, then one section per entry of the dictionary is inserted.
display_frequencies(text, frequencies_dict, overlay) ==
    (IF ~overlay THEN << >> ELSE text) \o frequencies_dict

(***************************************************************************)
(* BalancedDiceGUI.start_simulation.  st is the state the handler works    *)
(* on: ax, plotted_dice, overlay_active, displayed_frequencies, the        *)
(* generator and the simulate_rolls calls made so far.                     *)
(***************************************************************************)
\* standard_results = simulate_rolls(roll_standard_dice, num_rolls) ...
\* self.plotted_dice.add("Standard")
RunStandard(st, n) ==
    LET sim == simulate_rolls("roll_standard_dice", n, << >>, st.rng) IN
    [st EXCEPT
        !.calls = Append(@, [roll_function |-> "roll_standard_dice",
                             num_rolls |-> n, args |-> << >>]),
        !.displayed = Append(@, [dice_type |-> "Standard dice",
                                 frequencies |-> calculate_frequencies(sim.results)]),
        !.ax = plot_results(sim.results, "Standard dice", @),
        !.plotted_dice = @ \cup {"Standard"},
        !.rng = sim.rng]

\* balanced_queue = create_balanced_queue(EXPECTED_DIST_2_12) ...
\* self.plotted_dice.add("Balanced")
RunBalanced(st, n) ==
    LET c   == create_balanced_queue(EXPECTED_DIST_2_12, st.rng)
        sim == simulate_rolls("roll_balanced_dice", n, << c.queue >>, c.rng)
    IN
    [st EXCEPT
        !.calls = Append(@, [roll_function |-> "roll_balanced_dice",
                             num_rolls |-> n, args |-> << c.queue >>]),
        !.balanced_queue = Append(@, c.queue),
        !.displayed = Append(@, [dice_type |-> "Balanced dice",
                                 frequencies |-> calculate_frequencies(sim.results)]),
        !.ax = plot_results(sim.results, "Balanced dice", @),
        !.plotted_dice = @ \cup {"Balanced"},
        !.rng = sim.rng]

NotPlotted_unchecked(name, plotted) == TRUE

\* `if "Standard" not in self.plotted_dice` / `if "Balanced" not in ...`
NotPlotted(name, plotted) == name \notin plotted

\* the branch for dice_choice = "Standard"
StandardBranch(st, n, overlay) ==
    LET a == IF NotPlotted("Standard", st.plotted_dice)
             THEN RunStandard(st, n) ELSE st
    IN  IF overlay /\ NotPlotted("Balanced", a.plotted_dice)
        THEN [RunBalanced(a, n) EXCEPT !.overlay_active = TRUE]
        ELSE a

\* the branch for dice_choice = "Balanced"
BalancedBranch(st, n, overlay) ==
    LET a == IF NotPlotted("Balanced", st.plotted_dice)
             THEN RunBalanced(st, n) ELSE st
    IN  IF overlay /\ NotPlotted("Standard", a.plotted_dice)
        THEN [RunStandard(a, n) EXCEPT !.overlay_active = TRUE]
        ELSE a

\* the "Clear required" check: the box is shown and the handler goes on
ClearRequiredBox(active) == IF active THEN << "Clear required" >> ELSE << >>

AfterReset_keeps_flag(seed) ==
    [ax             |-> IF ~overlay_choice THEN << >> ELSE chart,
     overlay_active |-> overlay_active,
     plotted_dice   |-> IF ~overlay_choice \/ ~has_plotted_dice
                        THEN {} ELSE plotted_dice,
     displayed      |-> << >>,
     calls          |-> << >>,
     balanced_queue |-> << >>,
     rng            |-> seed]

AfterReset_keeps_chart(seed) ==
    [ax             |-> chart,
     overlay_active |-> IF ~overlay_choice THEN FALSE ELSE overlay_active,
     plotted_dice   |-> IF ~overlay_choice \/ ~has_plotted_dice
                        THEN {} ELSE plotted_dice,
     displayed      |-> << >>,
     calls          |-> << >>,
     balanced_queue |-> << >>,
     rng            |-> seed]

\* the handler's state after `if not self.overlay_choice.get()` and
\* `if not hasattr(self, "plotted_dice")`
AfterReset(seed) ==
    [ax             |-> IF ~overlay_choice THEN << >> ELSE chart,
     overlay_active |-> IF ~overlay_choice THEN FALSE ELSE overlay_active,
     plotted_dice   |-> IF ~overlay_choice \/ ~has_plotted_dice
                        THEN {} ELSE plotted_dice,
     displayed      |-> << >>,
     calls          |-> << >>,
     balanced_queue |-> << >>,
     rng            |-> seed]

\* start_simulation with `text` in the entry; the generator is in some
\* state `seed` when the handler first draws from it.
start_simulation(text) ==
    /\ pc = "done"
    /\ IF ~ValidCount(text)
       THEN /\ msgs' = << "Error" >>
            /\ calls' = << >>
            /\ balanced_queue' = << >>
            /\ UNCHANGED << overlay_active, has_plotted_dice, plotted_dice,
                            chart, text_freq >>
       ELSE \E seed \in SessionSeeds :
            \* s1: the handler's state after the branch for dice_choice
            \E s1 \in { IF dice_choice = "Standard"
                         THEN StandardBranch(AfterReset(seed),
                                             ParseInt(text).value, overlay_choice)
                         ELSE IF dice_choice = "Balanced"
                         THEN BalancedBranch(AfterReset(seed),
                                             ParseInt(text).value, overlay_choice)
                         ELSE AfterReset(seed) } :
                /\ msgs' = ClearRequiredBox(overlay_active)
                /\ calls' = s1.calls
                /\ balanced_queue' = s1.balanced_queue
                /\ overlay_active' = s1.overlay_active
                /\ has_plotted_dice' = TRUE
                /\ plotted_dice' = s1.plotted_dice
                /\ chart' = s1.ax
                /\ text_freq' = display_frequencies(text_freq, s1.displayed,
                                                    overlay_choice)
    /\ op' = "start_simulation"
    /\ UNCHANGED << dice_choice, overlay_choice >>
    /\ UNCHANGED << simVars, cliVars, aggVars >>

clear_graph_keeps_flag ==
    /\ pc = "done"
    /\ chart' = << >>
    /\ plotted_dice' = {}
    /\ has_plotted_dice' = TRUE
    /\ overlay_choice' = FALSE
    /\ text_freq' = << >>
    /\ msgs' = << "Graphs and frequencies cleared" >>
    /\ calls' = << >>
    /\ balanced_queue' = << >>
    /\ op' = "clear_graph"
    /\ UNCHANGED << overlay_active, dice_choice >>
    /\ UNCHANGED << simVars, cliVars, aggVars >>

\* BalancedDiceGUI.clear_graph
clear_graph ==
    /\ pc = "done"
    /\ chart' = << >>
    /\ plotted_dice' = {}
    /\ has_plotted_dice' = TRUE
    /\ overlay_choice' = FALSE
    /\ overlay_active' = FALSE
    /\ text_freq' = << >>
    /\ msgs' = << "Graphs and frequencies cleared" >>
    /\ calls' = << >>
    /\ balanced_queue' = << >>
    /\ op' = "clear_graph"
    /\ UNCHANGED dice_choice
    /\ UNCHANGED << simVars, cliVars, aggVars >>

\* the user picks a radio button (variable=self.dice_choice)
SelectDice(d) ==
    /\ pc = "done"
    /\ dice_choice # d
    /\ dice_choice' = d
    /\ op' = "select"
    /\ UNCHANGED << overlay_active, has_plotted_dice, plotted_dice,
                    overlay_choice, chart, text_freq, msgs, calls,
                    balanced_queue >>
    /\ UNCHANGED << simVars, cliVars, aggVars >>

\* the user clicks the check button (variable=self.overlay_choice)
ToggleOverlay ==
    /\ pc = "done"
    /\ overlay_choice' = ~overlay_choice
    /\ op' = "toggle"
    /\ UNCHANGED << overlay_active, has_plotted_dice, plotted_dice,
                    dice_choice, chart, text_freq, msgs, calls,
                    balanced_queue >>
    /\ UNCHANGED << simVars, cliVars, aggVars >>

StartSimulation == \E text \in EntryTexts : start_simulation(text)

SelectAnyDice == \E d \in {"Standard", "Balanced"} : SelectDice(d)

InitSession == InitIdle /\ InitGUI /\ InitNoScript /\ InitNoAggregate

NextGUI == StartSimulation \/ clear_graph \/ SelectAnyDice \/ ToggleOverlay

SpecGUI == InitSession /\ [][NextGUI]_vars

(***************************************************************************)
(* balanced-dice.py: main(), one step per input() and what follows it up   *)
(* to the next input() or the return.                                      *)
(***************************************************************************)
LowerChar ==
    "A" :> "a" @@ "B" :> "b" @@ "C" :> "c" @@ "D" :> "d" @@ "E" :> "e" @@
    "L" :> "l" @@ "N" :> "n" @@ "O" :> "o" @@ "R" :> "r" @@ "S" :> "s" @@
    "T" :> "t" @@ "Y" :> "y"

\* str.lower()
Lower(t) ==
    [k \in 1 .. Len(t) |-> IF t[k] \in DOMAIN LowerChar THEN LowerChar[t[k]]
                           ELSE t[k]]

\* what the user may type at "Enter the number of rolls: "
CountTexts == EntryTexts \cup { Str(n) : n \in 1 .. MaxRolls }

\* what the user may type at "Choose your algorithm: ..."
ChoiceTexts ==
    { << "s" >>, << "S" >>, << "S", "t", "a", "n", "d", "a", "r", "d" >>,
      << "b" >>, << "B" >>, << "B", "A", "L", "A", "N", "C", "E", "D" >>,
      << "x" >>, << >>, << "s", " " >> }

\* what the user may type at "Would you like to overlay ...?"
AnswerTexts ==
    { << "y" >>, << "Y" >>, << "Y", "e", "s" >>, << "n" >>, << "N", "o" >>,
      << >>, << "y", "e" >> }

StandardTokens == { << "s" >>, << "s", "t", "a", "n", "d", "a", "r", "d" >> }

BalancedTokens == { << "b" >>, << "b", "a", "l", "a", "n", "c", "e", "d" >> }

YesTokens == { << "y" >>, << "y", "e", "s" >> }

\* visualise_results(*args): one bar series per (results, label)
visualise_results(datasets) ==
    [k \in 1 .. Len(datasets) |->
        [label  |-> datasets[k].label,
         counts |-> [v \in 2 .. 12 |-> CountOf(datasets[k].results, v)]]]

\* the variables of simulate_rolls main() does not show, and of the window
loopVars == << pc, roll_function, num_rolls, i, args, results,
               fresh_start, popped, discarded, start >>

widgetVars == << overlay_active, has_plotted_dice, plotted_dice, dice_choice,
                 overlay_choice, chart, text_freq, msgs >>

StandardCall(n) ==
    [roll_function |-> "roll_standard_dice", num_rolls |-> n, args |-> << >>]

BalancedCall(n, queue) ==
    [roll_function |-> "roll_balanced_dice", num_rolls |-> n,
     args |-> << queue >>]

InitScript ==
    /\ cli_pc = "count"
    /\ cli_num = 0
    /\ standard_results = << >>
    /\ balanced_results = << >>
    /\ figures = << >>
    /\ printed = << >>
    /\ pc = "done"
    /\ roll_function = "roll_standard_dice"
    /\ num_rolls = 0
    /\ i = 0
    /\ args = << >>
    /\ results = << >>
    /\ rng \in Seeds
    /\ fresh_start = FALSE
    /\ popped = << >>
    /\ discarded = 0
    /\ start = [args |-> << >>, rng |-> 0]
    /\ InitGUI
    /\ InitNoAggregate

\* num_rolls = int(input(...)); if num_rolls <= 0: raise ValueError(...);
\* except ValueError as error: print(f"Error: {error}"); return
ReadCount(text) ==
    /\ cli_pc = "count"
    /\ IF ~ParseInt(text).ok
       THEN /\ printed' = Append(printed, "Error: invalid literal for int()")
            /\ cli_pc' = "exit"
            /\ UNCHANGED cli_num
       ELSE IF ParseInt(text).value <= 0
       THEN /\ printed' = Append(printed,
                                 "Error: Number of rolls must be positive.")
            /\ cli_pc' = "exit"
            /\ UNCHANGED cli_num
       ELSE /\ cli_num' = ParseInt(text).value
            /\ cli_pc' = "choice"
            /\ UNCHANGED printed
    /\ op' = "main"
    /\ UNCHANGED << standard_results, balanced_results, figures >>
    /\ UNCHANGED << rng, calls, balanced_queue >>
    /\ UNCHANGED << loopVars, widgetVars, aggVars >>

\* choice = input("Choose your algorithm: ..."), the first simulation and
\* its figure
ChooseAlgorithm(choice) ==
    /\ cli_pc = "choice"
    /\ IF Lower(choice) \in StandardTokens
       THEN \E sim \in { simulate_rolls("roll_standard_dice", cli_num,
                                        << >>, rng) } :
            /\ standard_results' = sim.results
            /\ figures' = Append(figures, visualise_results(
                   << [results |-> sim.results,
                       label |-> "Standard dice distribution"] >>))
            /\ rng' = sim.rng
            /\ calls' = Append(calls, StandardCall(cli_num))
            /\ cli_pc' = "overlay_balanced"
            /\ UNCHANGED << balanced_results, balanced_queue, printed >>
       ELSE IF Lower(choice) \in BalancedTokens
       THEN \E c \in { create_balanced_queue(EXPECTED_DIST_2_12, rng) } :
            \E sim \in { simulate_rolls("roll_balanced_dice", cli_num,
                                        << c.queue >>, c.rng) } :
            /\ balanced_queue' = Append(balanced_queue, c.queue)
            /\ calls' = Append(calls, BalancedCall(cli_num, c.queue))
            /\ rng' = sim.rng
            /\ IF sim.raised
               THEN /\ cli_pc' = "IndexError"
                    /\ UNCHANGED << balanced_results, figures >>
               ELSE /\ balanced_results' = sim.results
                    /\ figures' = Append(figures, visualise_results(
                           << [results |-> sim.results,
                               label |-> "Balanced dice distribution"] >>))
                    /\ cli_pc' = "overlay_standard"
            /\ UNCHANGED << standard_results, printed >>
       ELSE /\ printed' = printed \o
                    << "You have made an invalid choice.",
                       "Please choose (S)tandard or (B)alanced." >>
            /\ cli_pc' = "exit"
            /\ UNCHANGED << standard_results, balanced_results, figures,
                            rng, calls, balanced_queue >>
    /\ op' = "main"
    /\ UNCHANGED cli_num
    /\ UNCHANGED << loopVars, widgetVars, aggVars >>

\* choice = input("Would you like to overlay ..."), the second simulation
\* and the figure with both series
AnswerOverlay(choice) ==
    /\ cli_pc \in {"overlay_balanced", "overlay_standard"}
    /\ IF Lower(choice) \notin YesTokens
       THEN /\ cli_pc' = "exit"
            /\ UNCHANGED << standard_results, balanced_results, figures,
                            rng, calls, balanced_queue >>
       ELSE IF cli_pc = "overlay_balanced"
       THEN \E c \in { create_balanced_queue(EXPECTED_DIST_2_12, rng) } :
            \E sim \in { simulate_rolls("roll_balanced_dice", cli_num,
                                        << c.queue >>, c.rng) } :
            /\ balanced_queue' = Append(balanced_queue, c.queue)
            /\ calls' = Append(calls, BalancedCall(cli_num, c.queue))
            /\ rng' = sim.rng
            /\ IF sim.raised
               THEN /\ cli_pc' = "IndexError"
                    /\ UNCHANGED << balanced_results, figures >>
               ELSE /\ balanced_results' = sim.results
                    /\ figures' = Append(figures, visualise_results(
                           << [results |-> standard_results,
                               label |-> "Standard dice"],
                              [results |-> sim.results,
                               label |-> "Balanced dice"] >>))
                    /\ cli_pc' = "exit"
            /\ UNCHANGED standard_results
       ELSE \E sim \in { simulate_rolls("roll_standard_dice", cli_num,
                                        << >>, rng) } :
            /\ standard_results' = sim.results
            /\ figures' = Append(figures, visualise_results(
                   << [results |-> balanced_results,
                       label |-> "Balanced dice"],
                      [results |-> sim.results,
                       label |-> "Standard dice"] >>))
            /\ rng' = sim.rng
            /\ calls' = Append(calls, StandardCall(cli_num))
            /\ cli_pc' = "exit"
            /\ UNCHANGED << balanced_results, balanced_queue >>
    /\ op' = "main"
    /\ UNCHANGED << cli_num, printed >>
    /\ UNCHANGED << loopVars, widgetVars, aggVars >>

ReadAnyCount == \E text \in CountTexts : ReadCount(text)

ChooseAnyAlgorithm == \E choice \in ChoiceTexts : ChooseAlgorithm(choice)

AnswerAnyOverlay == \E choice \in AnswerTexts : AnswerOverlay(choice)

main == ReadAnyCount \/ ChooseAnyAlgorithm \/ AnswerAnyOverlay

(***************************************************************************)
(* Either entry point: the script or the window.                           *)
(***************************************************************************)
InitEntry == InitScript \/ InitSession

WindowEvent == cli_pc = "none" /\ NextGUI

NextEntry == main \/ WindowEvent

SpecEntry == InitEntry /\ [][NextEntry]_vars

(***************************************************************************)
(* calculate_frequencies and plot_results applied to one result list, as   *)
(* start_simulation applies them to the list simulate_rolls returned.  The *)
(* lists also hold values outside 2..12.                                   *)
(***************************************************************************)
AggValues == {1, 2, 7, 12, 13}

ResultLists == UNION { [1 .. n -> AggValues] : n \in 0 .. MaxAggLen }

InitAggregate ==
    /\ agg_pc = "input"
    /\ agg_results \in ResultLists
    /\ agg_frequencies = << >>
    /\ agg_ax = << >>
    /\ InitIdle
    /\ InitGUI
    /\ InitNoScript

\* displayed_frequencies[...] = self.calculate_frequencies(results);
\* plot_results(results, label, self.ax)
Aggregate ==
    /\ agg_pc = "input"
    /\ agg_frequencies' = calculate_frequencies(agg_results)
    /\ agg_ax' = plot_results(agg_results, "Standard dice", agg_ax)
    /\ agg_pc' = "done"
    /\ UNCHANGED agg_results
    /\ UNCHANGED << simVars, guiVars, cliVars >>

NextAgg == Aggregate

SpecAgg == InitAggregate /\ [][NextAgg]_vars

(***************************************************************************)
(* Properties of the balanced queue and the driver (checked under Spec).   *)
(***************************************************************************)
Outcomes == DOMAIN EXPECTED_DIST_2_12

weight(v) == EXPECTED_DIST_2_12[v]

RECURSIVE SumWeights(_)
SumWeights(S) ==
    IF S = {} THEN 0
    ELSE LET v == CHOOSE x \in S : TRUE IN weight(v) + SumWeights(S \ {v})

\* length of one cycle: the sum of the weights
CycleLen == SumWeights(Outcomes)

Min(a, b) == IF a <= b THEN a ELSE b

\* the most recent CycleLen results
LastRun == SubSeq(results, Len(results) - CycleLen + 1, Len(results))

\* a balanced simulation started on a freshly built queue
BalancedFresh == roll_function = "roll_balanced_dice" /\ fresh_start

\* C1: in a balanced run started on a fresh queue, each block of 36 results
\* that ends at a cycle boundary (results 1-36, 37-72, ...) holds every
\* outcome v exactly weight(v) times.
C1_CycleFidelity ==
    (BalancedFresh /\ Len(results) > 0 /\ Len(results) % CycleLen = 0)
        => \A v \in Outcomes : CountOf(LastRun, v) = weight(v)

C1_Witness ==
    BalancedFresh /\ Len(results) = 2 * CycleLen

\* C2 as stated: every window of 36 consecutive results of a balanced run,
\* at any offset, holds every outcome v exactly weight(v) times.
C2_EveryWindowExact ==
    (BalancedFresh /\ Len(results) >= CycleLen)
        => \A v \in Outcomes : CountOf(LastRun, v) = weight(v)

\* C2 amended: in a balanced run (on a fresh or an empty queue) a window of
\* 36 consecutive results that starts k rolls past a cycle boundary holds every outcome v within min(weight(v), k, 36 - k) of
\* weight(v) times; exactly weight(v) times when k = 0.
C2_WindowWithinCycleOffset ==
    (roll_function = "roll_balanced_dice" /\ Len(results) >= CycleLen)
        => LET k == Len(results) % CycleLen IN
           \A v \in Outcomes :
              /\ CountOf(LastRun, v) >= weight(v) - Min(weight(v), Min(k, CycleLen - k))
              /\ CountOf(LastRun, v) <= weight(v) + Min(weight(v), Min(k, CycleLen - k))

C2_Witness ==
    /\ BalancedFresh
    /\ Len(results) > CycleLen
    /\ Len(results) % CycleLen # 0
    /\ \E v \in Outcomes : CountOf(LastRun, v) # weight(v)

\* the runs the entry points make: Standard, or Balanced on a fresh queue
EntryPointRun == roll_function = "roll_standard_dice" \/ BalancedFresh

\* C5: for n >= 1, simulate_rolls with the Standard roller, or with the
\* Balanced roller on a fresh queue, returns (it does not raise) exactly n
\* values, each in 2..12.
C5_LengthAndRange ==
    (EntryPointRun /\ num_rolls >= 1)
        => /\ pc # "IndexError"
           /\ \A k \in 1 .. Len(results) : results[k] \in 2 .. 12
           /\ pc = "done" => Len(results) = num_rolls

C5_Witness ==
    /\ pc = "done"
    /\ roll_function = "roll_standard_dice"
    /\ num_rolls > CycleLen
    /\ Len(results) = num_rolls

\* C6: whether the queue passed in is fresh or empty, list.pop() is never
\* executed on an empty queue: no run ends in IndexError.
C6_NeverPopsEmpty == pc # "IndexError"

C6_Witness ==
    /\ roll_function = "roll_balanced_dice"
    /\ ~fresh_start
    /\ Len(results) > CycleLen

\* C10: in a balanced run started on a fresh queue, the values left in the
\* queue together with the values popped since the last build are exactly
\* one full cycle, and no rebuild has replaced a queue that still held
\* values.
C10_QueueInvariant ==
    BalancedFresh
        => /\ \A v \in Outcomes :
                CountOf(args[1], v) + CountOf(popped, v) = weight(v)
           /\ Len(args[1]) + Len(popped) = CycleLen
           /\ discarded = 0

\* just after a rebuild: one value popped from the new cycle
C10_Witness ==
    /\ BalancedFresh
    /\ Len(results) = CycleLen + 1
    /\ Len(popped) = 1
    /\ Len(args[1]) = CycleLen - 1

(***************************************************************************)
(* Properties of the overlay session (checked under SpecGUI).              *)
(***************************************************************************)
Strategies == {"Standard", "Balanced"}

\* the plotted set; before the attribute exists nothing has been plotted
PlottedSet == IF has_plotted_dice THEN plotted_dice ELSE {}

SeriesLabel(strategy) ==
    IF strategy = "Standard" THEN "Standard dice" ELSE "Balanced dice"

RollerOf(strategy) ==
    IF strategy = "Standard" THEN "roll_standard_dice" ELSE "roll_balanced_dice"

Other(strategy) == IF strategy = "Standard" THEN "Balanced" ELSE "Standard"

\* the strategies whose series are on the chart
ChartStrategies ==
    {st \in Strategies : \E k \in 1 .. Len(chart) : chart[k].label = SeriesLabel(st)}

\* this step is a start_simulation call whose roll count was accepted
ValidStartStep == op' = "start_simulation" /\ msgs' # << "Error" >>

\* C3 as stated: a start_simulation call made while both series are plotted
\* and overlay_active is set shows "Clear required", leaves the plotted set,
\* overlay_active and the chart unchanged and runs no simulation.
C3_ConflictIsPureRejection ==
    [][ (ValidStartStep /\ overlay_active /\ PlottedSet = Strategies)
            => /\ msgs' = << "Clear required" >>
               /\ PlottedSet' = PlottedSet
               /\ overlay_active' = overlay_active
               /\ chart' = chart
               /\ calls' = << >> ]_vars

\* C4 as stated: whenever both strategies are plotted, the next accepted
\* start_simulation call shows "Clear required".
C4_TwoSeriesThenConflict ==
    [][ (ValidStartStep /\ PlottedSet = Strategies)
            => msgs' = << "Clear required" >> ]_vars

\* the chart holds each strategy at most once, and exactly the plotted ones
C7_ChartMatchesPlotted ==
    /\ \A j, k \in 1 .. Len(chart) : chart[j].label = chart[k].label => j = k
    /\ \A k \in 1 .. Len(chart) : chart[k].label \in {SeriesLabel(st) : st \in Strategies}
    /\ ChartStrategies = PlottedSet

\* an accepted call with the overlay box checked, for a strategy already
\* plotted: no simulation of that strategy, its series stays, and the only
\* series added is the other strategy's, when that one was not plotted
C7_OverlayStep ==
    (ValidStartStep /\ overlay_choice /\ dice_choice \in PlottedSet)
        => /\ \A k \in 1 .. Len(calls') :
                calls'[k].roll_function # RollerOf(dice_choice)
           /\ IF Other(dice_choice) \in PlottedSet
              THEN chart' = chart /\ calls' = << >>
              ELSE /\ Len(chart') = Len(chart) + 1
                   /\ SubSeq(chart', 1, Len(chart)) = chart
                   /\ chart'[Len(chart')].label = SeriesLabel(Other(dice_choice))
                   /\ Len(calls') = 1

\* C7: in every state of the session each strategy is on the chart at most
\* once and the chart's series are exactly the plotted set; a call with
\* overlay checked for an already plotted strategy neither replots nor
\* re-simulates it and adds only the other strategy if it is not plotted.
C7_NoDuplicateSeries ==
    []C7_ChartMatchesPlotted /\ [][C7_OverlayStep]_vars

\* Standard was plotted before; the overlay call for Standard added Balanced
C7_Witness ==
    /\ op = "start_simulation"
    /\ overlay_choice
    /\ dice_choice = "Standard"
    /\ Len(calls) = 1
    /\ calls[1].roll_function = "roll_balanced_dice"
    /\ Len(chart) = 2
    /\ chart[1].label = "Standard dice"

ClearedBox == << "Graphs and frequencies cleared" >>

\* C8: clear_graph leaves the plotted set empty, overlay_active false, the
\* overlay box unchecked and the chart without series; the next accepted
\* start_simulation call after it (no handler ran in between) shows no
\* "Clear required".
C8_ClearResets ==
    [][ /\ op' = "clear_graph"
            => /\ has_plotted_dice' /\ plotted_dice' = {}
               /\ ~overlay_active'
               /\ ~overlay_choice'
               /\ chart' = << >>
        /\ (msgs = ClearedBox /\ ValidStartStep)
            => msgs' # << "Clear required" >> ]_vars

\* clear_graph has just run, with Balanced selected
C8_Witness ==
    /\ op = "clear_graph"
    /\ msgs = ClearedBox
    /\ has_plotted_dice
    /\ plotted_dice = {}
    /\ chart = << >>
    /\ ~overlay_choice
    /\ dice_choice = "Balanced"

\* C9 as stated: an accepted start_simulation call either leaves the number
\* of plotted series as it is, or moves empty to one series (the selected
\* strategy was not plotted), or one series to two (overlay checked); never
\* empty to two in one call, and never out of two series.
C9_ThreeStateMachine ==
    [][ ValidStartStep
            => LET before == Cardinality(PlottedSet)
                   after  == Cardinality(PlottedSet')
               IN  /\ \/ after = before
                      \/ before = 0 /\ after = 1 /\ dice_choice \notin PlottedSet
                      \/ before = 1 /\ after = 2 /\ overlay_choice
                   /\ ~(before = 0 /\ after = 2)
                   /\ before = 2 => after = 2 ]_vars

\* C17: in every state of the session, overlay_active set implies that both
\* Standard and Balanced are in the plotted set.
C17_ActiveImpliesBothPlotted ==
    overlay_active => PlottedSet = Strategies

\* the overlay call has plotted the second series and set the flag
C17_Witness ==
    /\ op = "start_simulation"
    /\ overlay_active
    /\ Len(chart) = 2
    /\ Len(calls) = 2

\* C18: an accepted start_simulation call made with overlay_active false and
\* the overlay box unchecked leaves exactly the selected strategy plotted:
\* the plotted set is {selected}, the chart holds that one series and
\* overlay_active is false.
C18_PlainSimulateReplots ==
    [][ (ValidStartStep /\ ~overlay_active /\ ~overlay_choice)
            => /\ has_plotted_dice'
               /\ plotted_dice' = {dice_choice}
               /\ Len(chart') = 1
               /\ chart'[1].label = SeriesLabel(dice_choice)
               /\ Len(calls') = 1
               /\ calls'[1].roll_function = RollerOf(dice_choice)
               /\ ~overlay_active' ]_vars

\* a plain call for Balanced has replaced what was plotted
C18_Witness ==
    /\ op = "start_simulation"
    /\ msgs = << >>
    /\ ~overlay_choice
    /\ dice_choice = "Balanced"
    /\ plotted_dice = {"Balanced"}
    /\ Len(chart) = 1
    /\ chart[1].label = "Balanced dice"

(***************************************************************************)
(* Further properties of the driver and the table (checked under Spec).    *)
(***************************************************************************)
\* C13: with num_rolls = 0 the balanced driver never calls the roller: the
\* result stays empty and the queue (contents and order) and the generator
\* are as passed in; nothing is popped and nothing is rebuilt.
C13_ZeroRollsTouchNothing ==
    (roll_function = "roll_balanced_dice" /\ num_rolls = 0)
        => /\ pc \in {"loop", "done"}
           /\ results = << >>
           /\ i = 0
           /\ args = start.args
           /\ rng = start.rng
           /\ popped = << >>
           /\ discarded = 0

C13_Witness ==
    /\ pc = "done"
    /\ roll_function = "roll_balanced_dice"
    /\ fresh_start
    /\ num_rolls = 0
    /\ Len(args[1]) = CycleLen

\* the number of ordered pairs of faces (a, b) in 1..6 with a + b = v
PairCount(v) ==
    Cardinality({p \in (1 .. 6) \X (1 .. 6) : p[1] + p[2] = v})

\* C14: the table is symmetric around 7, its weights sum to 36, and
\* weight(v) is the number of ordered pairs of faces with sum v; so a
\* freshly built cycle holds, as a multiset, exactly the 36 sums of two dice.
C14_TableIsTwoDice ==
    /\ \A v \in Outcomes : (14 - v) \in Outcomes /\ weight(v) = weight(14 - v)
    /\ CycleLen = 36
    /\ \A v \in 1 .. 13 :
          PairCount(v) = IF v \in Outcomes THEN weight(v) ELSE 0
    /\ (BalancedFresh /\ i = 0)
          => /\ Len(args[1]) = 36
             /\ \A v \in 2 .. 12 : CountOf(args[1], v) = PairCount(v)

C14_Witness ==
    /\ BalancedFresh
    /\ i = 0
    /\ Len(args[1]) = 36
    /\ CountOf(args[1], 7) = 6

\* the queue passed to a balanced run on a fresh queue
StartQueue == start.args[1]

\* on a fresh queue the first min(n, 36) results are the queue passed in,
\* read from its last element to its first, and the rest is still queued
C15_PopsFromTheEnd ==
    BalancedFresh
        => /\ \A k \in 1 .. Min(Len(results), Len(StartQueue)) :
                results[k] = StartQueue[Len(StartQueue) + 1 - k]
           /\ Len(results) <= Len(StartQueue)
                => args[1] = SubSeq(StartQueue, 1, Len(StartQueue) - Len(results))

\* a step of the loop appends the value the roller returns for the current
\* argument list, and passes the queue it returns to the next call
C15_AppendsInCallOrder ==
    (pc = "loop" /\ i' = i + 1)
        => /\ results' = Append(results, CallRoller(roll_function, args, rng).roll)
           /\ args # << >> => args'[1] = CallRoller(roll_function, args, rng).queue

\* C15: the i-th result is the value of the i-th roller call, each call gets
\* the queue the previous call returned, and on a fresh queue q the first
\* min(n, 36) results are q read from its last element to its first.
C15_CallOrderPreserved ==
    []C15_PopsFromTheEnd /\ [][C15_AppendsInCallOrder]_vars

C15_Witness ==
    /\ BalancedFresh
    /\ pc = "done"
    /\ num_rolls > CycleLen
    /\ Len(results) = num_rolls
    /\ results[1] = StartQueue[CycleLen]
    /\ results[CycleLen] = StartQueue[1]

(***************************************************************************)
(* Properties of the two frequency computations (checked under SpecAgg).   *)
(***************************************************************************)
\* the number of elements of s equal to v
RECURSIVE Occurrences(_, _)
Occurrences(s, v) ==
    IF s = << >> THEN 0
    ELSE (IF Head(s) = v THEN 1 ELSE 0) + Occurrences(Tail(s), v)

RECURSIVE SumOver(_, _)
SumOver(f, S) ==
    IF S = {} THEN 0
    ELSE LET k == CHOOSE x \in S : TRUE IN f[k] + SumOver(f, S \ {k})

InRange(s) == {k \in 1 .. Len(s) : s[k] \in 2 .. 12}

\* C11: calculate_frequencies returns a table with exactly the keys 2..12,
\* each key counting the occurrences of that value in the list; values
\* outside 2..12 are ignored, so the counts sum to the number of in-range
\* elements and the empty list gives all zeros.
C11_AggregatorCorrect ==
    agg_pc = "done"
        => /\ DOMAIN agg_frequencies = 2 .. 12
           /\ \A k \in 2 .. 12 : agg_frequencies[k] = Occurrences(agg_results, k)
           /\ SumOver(agg_frequencies, 2 .. 12) = Cardinality(InRange(agg_results))
           /\ agg_results = << >> => \A k \in 2 .. 12 : agg_frequencies[k] = 0

\* a list with a repeated value and a value outside 2..12
C11_Witness ==
    /\ agg_pc = "done"
    /\ agg_results = << 7, 13, 7 >>
    /\ agg_frequencies[7] = 2
    /\ agg_frequencies[2] = 0

\* C19: for every result list the table calculate_frequencies returns equals
\* the counts plot_results draws as bar heights, key for key.
C19_TableEqualsBarHeights ==
    agg_pc = "done"
        => /\ Len(agg_ax) = 1
           /\ DOMAIN agg_ax[1].counts = DOMAIN agg_frequencies
           /\ \A k \in DOMAIN agg_frequencies :
                agg_ax[1].counts[k] = agg_frequencies[k]

C19_Witness ==
    /\ agg_pc = "done"
    /\ Len(agg_results) = 3
    /\ agg_results[1] = 12
    /\ agg_results[2] = 1
    /\ agg_results[3] = 12
    /\ agg_ax[1].counts[12] = 2

(***************************************************************************)
(* Properties of the two entry points (checked under SpecEntry).           *)
(***************************************************************************)
\* the texts that write a positive integer: its decimal digits, with an
\* optional plus sign and blanks around it
PositiveNumerals == { Str(n) : n \in 1 .. (MaxRolls + MaxEntry + 40) }

InvalidRollCount(text) ==
    LET t    == StripRight(StripLeft(text))
        body == IF t # << >> /\ Head(t) = "+" THEN Tail(t) ELSE t
    IN  body \notin PositiveNumerals

\* a run of main() that ended at the count prompt
C12_RejectedRun ==
    cli_pc = "exit" /\ cli_num = 0
        => calls = << >> /\ balanced_queue = << >> /\ figures = << >>

C12_RejectingStep ==
    /\ \A text \in EntryTexts :
         InvalidRollCount(text) /\ start_simulation(text)
            => /\ msgs' = << "Error" >>
               /\ calls' = << >>
               /\ balanced_queue' = << >>
               /\ UNCHANGED << has_plotted_dice, plotted_dice, overlay_active,
                               chart, rng >>
    /\ cli_pc = "count"
         => \A text \in CountTexts :
              InvalidRollCount(text) /\ ReadCount(text)
                 => /\ cli_pc' = "exit"
                    /\ printed' # printed
                    /\ calls' = << >>
                    /\ balanced_queue' = << >>
                    /\ UNCHANGED << figures, rng >>

\* C12: in both entry points, when the entered roll count is non-numeric or
\* not positive, the step that reads it reports an error, calls
\* simulate_rolls not at all and creates no balanced queue; the window's
\* plotted set, overlay_active flag and chart stay as they were, and main()
\* returns without a simulation or a figure.
C12_InvalidCountStopsAtBoundary ==
    []C12_RejectedRun /\ [][C12_RejectingStep]_vars

\* a count rejected by the window while two series are on the chart
C12_Witness ==
    /\ op = "start_simulation"
    /\ msgs = << "Error" >>
    /\ calls = << >>
    /\ overlay_active
    /\ Len(chart) = 2

FullCycle(queue) ==
    /\ Len(queue) = CycleLen
    /\ \A v \in Outcomes : CountOf(queue, v) = weight(v)

\* counts[v] is within the completed cycles' share and the open cycle's
BoundedDeviation(counts, n) ==
    \A v \in Outcomes :
        /\ counts[v] >= (n \div CycleLen) * weight(v)
        /\ counts[v] <= (n \div CycleLen) * weight(v)
                            + Min(weight(v), n % CycleLen)
        /\ n % CycleLen = 0 => counts[v] * CycleLen = n * weight(v)

BalancedCalls == {k \in DOMAIN calls : calls[k].roll_function = "roll_balanced_dice"}

\* C16: every balanced simulation either entry point launches is called
\* with a queue create_balanced_queue has just built (a full cycle), and in
\* its n results each outcome v occurs at least floor(n/36)*weight(v) and at
\* most floor(n/36)*weight(v) + min(weight(v), n mod 36) times, which is
\* exactly (n/36)*weight(v) when n is a multiple of 36.
C16_BoundedDeviation ==
    /\ \A k \in BalancedCalls :
         /\ calls[k].args \in { << q >> : q \in { balanced_queue[j] :
                                                  j \in DOMAIN balanced_queue } }
         /\ FullCycle(calls[k].args[1])
    /\ cli_pc = "none"
         => \A k \in BalancedCalls :
              \E j \in DOMAIN chart :
                 /\ chart[j].label = "Balanced dice"
                 /\ SumOver(chart[j].counts, Outcomes) = calls[k].num_rolls
                 /\ BoundedDeviation(chart[j].counts, calls[k].num_rolls)
    /\ cli_pc \in {"overlay_standard", "exit"} /\ BalancedCalls # {}
         => /\ Len(balanced_results) = cli_num
            /\ BoundedDeviation([v \in Outcomes |-> CountOf(balanced_results, v)],
                                cli_num)
            /\ \A k \in BalancedCalls : calls[k].num_rolls = cli_num

\* two full cycles run by main()
C16_Witness ==
    /\ cli_pc = "exit"
    /\ cli_num = 2 * CycleLen
    /\ Len(balanced_results) = 2 * CycleLen
    /\ CountOf(balanced_results, 7) = 12
    /\ Len(standard_results) = 2 * CycleLen

====
